---- MODULE Spec2Model ----
(***************************************************************************)
(* Model of the Consultor Inteligente API: src/api.py (process start-up    *)
(* and the HTTP handlers) and src/backend_logic.py (ConsultorInteligente). *)
(*                                                                         *)
(* Python values are modelled as follows.                                  *)
(*   dict   a function whose DOMAIN is the set of keys that are present    *)
(*   list   a sequence                                                     *)
(*   None   the string PyNone                                              *)
(* A value that json.loads produced carries its Python type:               *)
(* [tipo |-> "dict", valor |-> d], [tipo |-> "list", valor |-> s],         *)
(* [tipo |-> "int", valor |-> n], [tipo |-> "str", valor |-> s] and        *)
(* [tipo |-> "None"].                                                      *)
(* A catalog entry that is held in a list is represented by its position   *)
(* in database_celulares (Python lists hold references to the dicts).      *)
(* A rating of celulares.json is written by its decimal literal, counted   *)
(* in tenths (95 is the literal 9.5).  json.load turns the literal into the *)
(* nearest IEEE 754 double (Double) and the scores are sums of doubles,     *)
(* rounded as Python rounds them (SomaDouble): 8.7 + 9.1 is less than       *)
(* 8.9 + 8.9.                                                               *)
(***************************************************************************)
EXTENDS Naturals, Integers, Sequences, FiniteSets, TLC

VARIABLES
    env_key,               \* os.environ has GEMINI_API_KEY
    celulares_json,        \* the file celulares.json on disk
    lojas_json,            \* the file lojas.json on disk
    processo,              \* "iniciando", "abortado" (import failed), "servindo"
    consultor,             \* api.consultor: PyNone or "ConsultorInteligente"
    database_celulares,    \* self.database_celulares
    lojas_ancora,          \* self.lojas_ancora
    lojas_rotativas,       \* self.lojas_rotativas
    pc,                    \* position of the POST /consultar request in flight
    extraido,              \* last value returned by _extrair_json_da_resposta
    intencao,              \* gerar_recomendacao_completa: intencao
    candidatos,            \* gerar_recomendacao_completa: candidatos
    produtos_recomendados, \* gerar_recomendacao_completa: produtos_recomendados
    lojas_selecionadas,    \* last value returned by selecionar_lojas
    resposta,              \* last answer to POST /consultar
    raiz,                  \* last answer to GET /
    etapas,                \* methods entered by the request in flight, in order
    chamadas_remotas,      \* model.generate_content calls of the request in flight
    chamadas_pontuacao,    \* calcular_pontuacao invocations of the request in flight
    consultas_log          \* number of lines of consultas_usuarios.log
                           \* (line feeds written to it)

vars == << env_key, celulares_json, lojas_json, processo, consultor,
           database_celulares, lojas_ancora, lojas_rotativas, pc, extraido,
           intencao,
           candidatos, produtos_recomendados, lojas_selecionadas, resposta,
           raiz, etapas, chamadas_remotas, chamadas_pontuacao, consultas_log >>

----------------------------------------------------------------------------
(* Bounds of the model *)

\* longest catalog the filter is run on
MaxCat == 11

\* longest catalog of the served requests
MaxCatServico == 3

\* longest recommendation list the remote service replies with
MaxProdutos == 4

\* longest list of rotating retailers
MaxRotativas == 4

\* the log takes requests while it has fewer lines than this
MaxConsultas == 2

\* most line feeds inside the query of a request
MaxQuebras == 1

----------------------------------------------------------------------------
(* Python helpers *)

PyNone == "None"

EmptyDict == [k \in {} |-> 0]

\* dict.get(k, default)
Get(d, k, default) == IF k \in DOMAIN d THEN d[k] ELSE default

\* truth value of a string or None
StrTruthy(s) == s # PyNone /\ s # ""

Range(s) == { s[i] : i \in 1..Len(s) }

\* s[:k]
Prefix(s, k) == SubSeq(s, 1, IF Len(s) < k THEN Len(s) ELSE k)

----------------------------------------------------------------------------
(* Python floats: IEEE 754 binary64, round to nearest, ties to even *)

\* The double x, for x = 0 or 2^-4 <= x < 2^7, is the whole number x * 2^56
\* written in three limbs of 21 bits: << a, b, c >> stands for
\* a * 2^42 + b * 2^21 + c.  A double in that range has 53 significant bits,
\* the first of which is at or above bit 52 of that number.
Limb == 2097152

Zero == << 0, 0, 0 >>

\* carries between limbs
Carry(x) ==
    LET b1 == x[2] + (x[3] \div Limb)
    IN  << x[1] + (b1 \div Limb), b1 % Limb, x[3] % Limb >>

\* how many low bits of a number with top limb a fall outside the 53
\* significant bits
BitsAMais(a) == CHOOSE d \in 0..10 : 2^(10 + d) <= a /\ a < 2^(11 + d)

\* the double nearest to the number x + rem/den (0 <= rem < den), ties to
\* the even mantissa
Arredondar(x, rem, den) ==
    LET passo == 2^BitsAMais(x[1])
        r == x[3] % passo
        impar == ((x[3] \div passo) % 2) = 1
        dobro == 2 * (r * den + rem)
        limite == passo * den
        sobe == dobro > limite \/ (dobro = limite /\ impar)
    IN  Carry(<< x[1], x[2], x[3] - r + (IF sobe THEN passo ELSE 0) >>)

\* the double nearest to n/10, 0 <= n <= 127
DecimalParaDouble(n) ==
    IF n = 0 THEN Zero
    ELSE LET a0 == n * 16384
             b0 == (a0 % 10) * Limb
             c0 == (b0 % 10) * Limb
         IN  Arredondar(<< a0 \div 10, b0 \div 10, c0 \div 10 >>, c0 % 10, 10)

\* the doubles of the decimal literals 0.0 to 12.7
Doubles == [ n \in 0..127 |-> DecimalParaDouble(n) ]

\* float of the decimal literal n/10 (json.load)
Double(n) == Doubles[n]

\* x + y
SomaDouble(x, y) ==
    IF x = Zero THEN y
    ELSE IF y = Zero THEN x
    ELSE Arredondar(Carry(<< x[1] + y[1], x[2] + y[2], x[3] + y[3] >>), 0, 1)

\* x >= y
MaiorOuIgual(x, y) ==
    \/ x[1] > y[1]
    \/ x[1] = y[1] /\ x[2] > y[2]
    \/ x[1] = y[1] /\ x[2] = y[2] /\ x[3] >= y[3]

----------------------------------------------------------------------------
(* Catalogs that celulares.json may hold *)

Perfis == { "escada", "misto", "destaque" }

\* "escada": every entry active and in tier Entrada, battery rating rising
\* along the catalog, constant camera rating, a decoy custo_beneficio inside
\* notas_detalhadas.
AparelhoEscada(i) ==
    [ ativo |-> TRUE,
      compra |-> [ faixa_preco_categoria |-> "Entrada" ],
      avaliacoes |->
        [ custo_beneficio |-> (i * 3) % 7,
          notas_detalhadas |->
            [ camera_principal |-> 5, bateria |-> i, desempenho |-> 20 - i,
              tela |-> i % 2, design |-> 3, custo_beneficio |-> i ] ] ]

\* "misto": inactive entries, entries without the key ativo, two tiers,
\* missing ratings and many equal scores.
AparelhoMisto(i) ==
    LET compra == [ faixa_preco_categoria |->
                        IF i % 4 = 0 THEN "Premium" ELSE "Entrada" ]
        notas == IF i % 3 = 1
                 THEN [ camera_principal |-> i % 2, desempenho |-> 4 ]
                 ELSE [ camera_principal |-> i % 2, bateria |-> i % 3,
                        desempenho |-> 4, tela |-> 6 - (i % 4), design |-> 1 ]
        avaliacoes == IF i % 2 = 0
                      THEN [ notas_detalhadas |-> notas ]
                      ELSE [ custo_beneficio |-> i % 5,
                             notas_detalhadas |-> notas ]
    IN  IF i % 10 = 0
        THEN [ compra |-> compra, avaliacoes |-> avaliacoes ]
        ELSE [ ativo |-> (i % 5 # 0), compra |-> compra,
               avaliacoes |-> avaliacoes ]

\* "destaque": one entry (position 3) with battery 9.5, one (position 1)
\* with 7.0, every other entry 5.0 or less.  The custo_beneficio and camera
\* ratings of the first six entries add up to 19.8 down to 19.3; the
\* entries after them are rated (8.7, 9.1) at the odd positions and
\* (8.9, 8.9) at the even ones: the two decimal sums are both 17.8, the two
\* float sums differ.
AparelhoDestaque(i) ==
    [ ativo |-> TRUE,
      compra |-> [ faixa_preco_categoria |-> "Intermediário" ],
      avaliacoes |->
        [ custo_beneficio |->
              IF i <= 6 THEN 99 ELSE IF i % 2 = 1 THEN 87 ELSE 89,
          notas_detalhadas |->
            [ camera_principal |->
                  IF i <= 6 THEN 100 - i ELSE IF i % 2 = 1 THEN 91 ELSE 89,
              bateria |-> IF i = 3 THEN 95
                          ELSE IF i = 1 THEN 70 ELSE 50 - 10 * (i % 3),
              desempenho |-> 70, tela |-> 70, design |-> 70 ] ] ]

Aparelho(perfil, i) ==
    CASE perfil = "escada"   -> AparelhoEscada(i)
      [] perfil = "misto"    -> AparelhoMisto(i)
      [] perfil = "destaque" -> AparelhoDestaque(i)

Catalogo(perfil, n) == [ i \in 1..n |-> Aparelho(perfil, i) ]

Catalogos == { Catalogo(perfil, n) : perfil \in Perfis, n \in 0..MaxCat }

----------------------------------------------------------------------------
(* Intents that captar_intencao may hand to the filter *)

FaixasPedidas == { "Entrada", "Premium" }

Focos == { << >>, << "bateria" >>, << "custo-benefício", "câmera" >>,
           << "desempenho", "zoom", "tela", "design", "tela" >> }

\* with both keys, without the key faixa_preco_categoria, with a null
\* faixa_preco_categoria, without the key caracteristicas_foco
Intencoes ==
    { [ faixa_preco_categoria |-> f, caracteristicas_foco |-> c ] :
        f \in FaixasPedidas, c \in Focos }
    \cup { [ caracteristicas_foco |-> c ] : c \in Focos }
    \cup { [ faixa_preco_categoria |-> PyNone, caracteristicas_foco |-> << >> ],
           [ faixa_preco_categoria |-> PyNone ],
           [ faixa_preco_categoria |-> "Entrada" ] }

----------------------------------------------------------------------------
(* ConsultorInteligente.filtrar_celulares_localmente *)

\* candidatos[:10] of the fallback path, candidatos[:7] and
\* random.sample(top_candidatos, 5) of the scored path
LimiteFallback == 10
LimiteTop == 7
TamanhoAmostra == 5

\* mutant of Ativo: the ativo filter of line 61 left out
Ativo_semFiltro(db, i) == TRUE

\* c.get("ativo")
Ativo(db, i) == Get(db[i], "ativo", FALSE)

\* c["compra"]["faixa_preco_categoria"] == faixa_preco_desejada
NaFaixa(db, i, faixa) == db[i]["compra"]["faixa_preco_categoria"] = faixa

\* mutant of NotaDoFoco: custo-benefício read from notas_detalhadas, like
\* the other ratings
NotaDoFoco_notasDetalhadas(celular, foco) ==
    LET notas == celular["avaliacoes"]["notas_detalhadas"]
    IN  CASE foco = "câmera"          -> Get(notas, "camera_principal", 0)
          [] foco = "bateria"         -> Get(notas, "bateria", 0)
          [] foco = "desempenho"      -> Get(notas, "desempenho", 0)
          [] foco = "custo-benefício" -> Get(notas, "custo_beneficio", 0)
          [] foco = "tela"            -> Get(notas, "tela", 0)
          [] foco = "design"          -> Get(notas, "design", 0)
          [] OTHER                    -> 0

\* the rating one focus tag adds to pontuacao (its decimal literal; the
\* default of dict.get is the int 0)
NotaDoFoco(celular, foco) ==
    LET notas == celular["avaliacoes"]["notas_detalhadas"]
    IN  CASE foco = "câmera"          -> Get(notas, "camera_principal", 0)
          [] foco = "bateria"         -> Get(notas, "bateria", 0)
          [] foco = "desempenho"      -> Get(notas, "desempenho", 0)
          [] foco = "custo-benefício" ->
                 Get(celular["avaliacoes"], "custo_beneficio", 0)
          [] foco = "tela"            -> Get(notas, "tela", 0)
          [] foco = "design"          -> Get(notas, "design", 0)
          [] OTHER                    -> 0

\* the loop of lines 67-73: pontuacao += rating, one focus tag after the
\* other
RECURSIVE Acumular(_, _, _)
Acumular(celular, focos, pontuacao) ==
    IF focos = << >> THEN pontuacao
    ELSE Acumular(celular, Tail(focos),
                  SomaDouble(pontuacao, Double(NotaDoFoco(celular, Head(focos)))))

\* calcular_pontuacao(celular) for the focus list caracteristicas_foco
calcular_pontuacao(celular, caracteristicas_foco) ==
    Acumular(celular, caracteristicas_foco, Zero)

\* Insertion of x into a list already sorted by descending key, after every
\* element whose key is not smaller: equal keys keep their arrival order.
RECURSIVE InserirOrdenado(_, _, _)
InserirOrdenado(ordenados, x, chave) ==
    IF ordenados = << >> THEN << x >>
    ELSE IF MaiorOuIgual(chave[Head(ordenados)], chave[x])
         THEN << Head(ordenados) >> \o InserirOrdenado(Tail(ordenados), x, chave)
         ELSE << x >> \o ordenados

\* mutant of OrdenarDesc: the sort without reverse=True (ascending, stable)
RECURSIVE InserirCrescente(_, _, _)
InserirCrescente(ordenados, x, chave) ==
    IF ordenados = << >> THEN << x >>
    ELSE IF MaiorOuIgual(chave[x], chave[Head(ordenados)])
         THEN << Head(ordenados) >> \o InserirCrescente(Tail(ordenados), x, chave)
         ELSE << x >> \o ordenados

RECURSIVE OrdenarDesc_semReverse(_, _)
OrdenarDesc_semReverse(s, chave) ==
    IF s = << >> THEN << >>
    ELSE InserirCrescente(OrdenarDesc_semReverse(SubSeq(s, 1, Len(s) - 1), chave),
                          s[Len(s)], chave)

\* list.sort(key=..., reverse=True), chave[x] being the key of x: descending
\* and stable
RECURSIVE OrdenarDesc(_, _)
OrdenarDesc(s, chave) ==
    IF s = << >> THEN << >>
    ELSE InserirOrdenado(OrdenarDesc(SubSeq(s, 1, Len(s) - 1), chave),
                         s[Len(s)], chave)

\* mutant of Amostras: random.choices, which may take a position twice
Amostras_comReposicao(populacao, k) ==
    { [ j \in 1..k |-> populacao[pos[j]] ] :
        pos \in [ 1..k -> 1..Len(populacao) ] }

\* random.sample(populacao, k): every list of k elements taken from k
\* different positions of populacao, in any order
Amostras(populacao, k) ==
    { [ j \in 1..k |-> populacao[pos[j]] ] :
        pos \in { p \in [ 1..k -> 1..Len(populacao) ] :
                    \A a, b \in 1..k : a # b => p[a] # p[b] } }

\* the candidates left after the ativo filter and the price-tier filter
Filtrados(db, intent) ==
    LET faixa_preco_desejada == Get(intent, "faixa_preco_categoria", PyNone)
        EstaAtivo(i) == Ativo(db, i)
        EstaNaFaixa(i) == NaFaixa(db, i, faixa_preco_desejada)
        ativos == SelectSeq([ i \in 1..Len(db) |-> i ], EstaAtivo)
    IN  IF StrTruthy(faixa_preco_desejada)
        THEN SelectSeq(ativos, EstaNaFaixa)
        ELSE ativos

\* mutant of CaminhoPontuado: line 64 without the test of caracteristicas_foco
CaminhoPontuado_semTesteDeFoco(db, intent) == Filtrados(db, intent) # << >>

\* whether the call takes the scored path (line 64 does not return)
CaminhoPontuado(db, intent) ==
    /\ Get(intent, "caracteristicas_foco", << >>) # << >>
    /\ Filtrados(db, intent) # << >>

\* mutant of TopCandidatos: the sorted list without the cut at 7
TopCandidatos_semCorte(db, intent) ==
    LET foco == Get(intent, "caracteristicas_foco", << >>)
        pontuacao == [ i \in 1..Len(db) |-> calcular_pontuacao(db[i], foco) ]
    IN  OrdenarDesc(Filtrados(db, intent), pontuacao)

\* candidatos[:7] after candidatos.sort(key=calcular_pontuacao, reverse=True)
TopCandidatos(db, intent) ==
    LET foco == Get(intent, "caracteristicas_foco", << >>)
        pontuacao == [ i \in 1..Len(db) |-> calcular_pontuacao(db[i], foco) ]
    IN  Prefix(OrdenarDesc(Filtrados(db, intent), pontuacao), LimiteTop)

\* every list filtrar_celulares_localmente(intent) can return
filtrar_celulares_localmente(db, intent) ==
    IF ~CaminhoPontuado(db, intent)
    THEN { Prefix(Filtrados(db, intent), LimiteFallback) }
    ELSE LET top_candidatos == TopCandidatos(db, intent)
         IN  IF Len(top_candidatos) > TamanhoAmostra
             THEN Amostras(top_candidatos, TamanhoAmostra)
             ELSE { top_candidatos }

\* how many times the call invokes calcular_pontuacao (the sort key is
\* computed once per element)
PontuacoesCalculadas(db, intent) ==
    IF CaminhoPontuado(db, intent) THEN Len(Filtrados(db, intent)) ELSE 0

----------------------------------------------------------------------------
(* Typed values *)

PyNull == [ tipo |-> "None" ]
PyDict(d) == [ tipo |-> "dict", valor |-> d ]
PyList(s) == [ tipo |-> "list", valor |-> s ]
PyInt(n) == [ tipo |-> "int", valor |-> n ]
PyStr(s) == [ tipo |-> "str", valor |-> s ]

\* bool(v)
Truthy(v) ==
    CASE v.tipo = "None" -> FALSE
      [] v.tipo = "dict" -> DOMAIN v.valor # {}
      [] v.tipo = "list" -> Len(v.valor) > 0
      [] v.tipo = "int"  -> v.valor # 0
      [] v.tipo = "str"  -> v.valor # ""

\* v or padrao
Ou(v, padrao) == IF Truthy(v) THEN v ELSE padrao

\* what a method call produced: a returned value or a raised exception
Retorno(v) == [ ok |-> TRUE, valor |-> v ]
Excecao(nome) == [ ok |-> FALSE, excecao |-> nome ]

----------------------------------------------------------------------------
(* ConsultorInteligente._extrair_json_da_resposta *)

\* A reply text is a sequence of lexical pieces: the opening code fence
\* (three backquotes followed by json), the bare code fence (three
\* backquotes), white space that JSON allows (space, tab, CR, LF), white
\* space that str.strip removes and JSON does not allow (form feed, vertical
\* tab, no-break space), prose, and a JSON document.
FenceJson == [ t |-> "cerca_json" ]
Fence == [ t |-> "cerca" ]
Espaco == [ t |-> "espaco" ]
EspacoNaoJson == [ t |-> "espaco_nao_json" ]
Prosa == [ t |-> "prosa" ]
Json(v) == [ t |-> "json", v |-> v ]

\* text.find(...) over the pieces in alvo, from position inicio: the first
\* position found, 0 when there is none (-1 in Python)
Find(text, alvo, inicio) ==
    LET achados == { i \in inicio..Len(text) : text[i] \in alvo }
    IN  IF achados = {} THEN 0
        ELSE CHOOSE i \in achados : \A j \in achados : i <= j

\* text without the pieces of the set brancos at its two ends
RECURSIVE SemBordas(_, _)
SemBordas(text, brancos) ==
    IF text = << >> THEN text
    ELSE IF Head(text) \in brancos THEN SemBordas(Tail(text), brancos)
    ELSE IF text[Len(text)] \in brancos
         THEN SemBordas(SubSeq(text, 1, Len(text) - 1), brancos)
    ELSE text

\* str.strip(): removes every Unicode white space at the two ends
Strip(text) == SemBordas(text, { Espaco, EspacoNaoJson })

\* json.loads(text): the document when the text is one JSON document with
\* JSON white space around it, JSONDecodeError otherwise
JsonLoads(text) ==
    LET t == SemBordas(text, { Espaco })
    IN  IF Len(t) = 1 /\ t[1].t = "json"
        THEN Retorno(t[1].v) ELSE Excecao("JSONDecodeError")

\* _extrair_json_da_resposta(text)
extrair_json_da_resposta(text) ==
    LET json_start == Find(text, { FenceJson }, 1)
        depois == json_start + 1
        \* the bare fence is also found at the start of an opening fence
        json_end == Find(text, { Fence, FenceJson }, depois)
        json_block == SubSeq(text, depois,
                             IF json_end # 0 THEN json_end - 1 ELSE Len(text))
        r == IF json_start = 0 THEN JsonLoads(text)
             ELSE JsonLoads(Strip(json_block))
    IN  IF r.ok THEN r.valor ELSE PyNull

\* the ways a reply text carries the JSON document v
Textos(v) ==
    { << Json(v) >>,
      << Espaco, Json(v), Espaco >>,
      << FenceJson, Espaco, Json(v), Espaco, Fence >>,
      << EspacoNaoJson, Json(v), EspacoNaoJson >>,
      << FenceJson, EspacoNaoJson, Json(v), Espaco, EspacoNaoJson, Fence >>,
      << Prosa, FenceJson, Json(v), Fence, Prosa >>,
      << FenceJson, Json(v) >>,
      << FenceJson, Json(v), FenceJson, Prosa >>,
      << Prosa, Json(v) >>,
      << Fence, Json(v), Fence >>,
      << FenceJson, Prosa, Json(v), Fence >> }

\* reply texts without a JSON document
TextosSemJson == { << >>, << Prosa >>, << FenceJson, Fence >> }

----------------------------------------------------------------------------
(* Replies of the remote generative service *)

\* JSON documents the service may send for the intent prompt
DocumentosIntencao ==
    { PyNull, PyDict(EmptyDict), PyList(<< >>),
      PyList(<< PyStr("bateria") >>), PyInt(0),
      PyDict([ faixa_preco_categoria |-> "Entrada",
               caracteristicas_foco |-> << "bateria" >> ]),
      PyDict([ faixa_preco_categoria |-> "Premium",
               caracteristicas_foco |-> << >> ]),
      PyDict([ caracteristicas_foco |-> << "custo-benefício", "câmera" >> ]),
      PyDict([ faixa_preco_categoria |-> PyNone ]) }

RespostasIntencao ==
    TextosSemJson \cup UNION { Textos(v) : v \in DocumentosIntencao }

\* items of a recommendation list; memoria_ram_gb stands for the value at
\* especificacoes.desempenho.memoria_ram_gb, the one value a card indexes
\* (line 143)
ItemOk == PyDict([ modelo |-> "A", memoria_ram_gb |-> << 8 >> ])
ItemSemRam == PyDict([ modelo |-> "B" ])
ItemRamVazia == PyDict([ modelo |-> "C", memoria_ram_gb |-> << >> ])
ItemTexto == PyStr("D")

Listas(itens, n) == UNION { [ 1..k -> itens ] : k \in 0..n }

\* JSON documents the service may send for the recommendation prompt
DocumentosRecomendacao ==
    { PyList(s) : s \in Listas({ ItemOk, ItemRamVazia }, MaxProdutos) }
    \cup { PyList(<< ItemOk, ItemSemRam, ItemOk >>),
           PyList(<< ItemOk, ItemOk, ItemTexto >>),
           PyList(<< ItemRamVazia, ItemTexto, ItemOk >>),
           PyNull, PyInt(3), PyDict(EmptyDict),
           PyDict([ recomendacoes |-> 1 ]),
           PyDict([ primeiro |-> 1, segundo |-> 2, terceiro |-> 3 ]) }

RespostasRecomendacao ==
    TextosSemJson \cup UNION { Textos(v) : v \in DocumentosRecomendacao }

----------------------------------------------------------------------------
(* ConsultorInteligente.selecionar_lojas *)

\* random.shuffle(s): every order of the list
Embaralhamentos(s) ==
    LET n == Len(s)
    IN  { [ k \in 1..n |-> s[f[k]] ] :
            f \in { g \in [ 1..n -> 1..n ] :
                      \A a, b \in 1..n : a # b => g[a] # g[b] } }

\* every list selecionar_lojas() can return
selecionar_lojas(ancora, rotativas) ==
    LET escolhidas_ancora ==
            IF Len(ancora) > 0
            THEN { << ancora[i] >> : i \in 1..Len(ancora) }
            ELSE { << >> }
        escolhidas_rotativas ==
            IF Len(rotativas) >= 2
            THEN Amostras(rotativas, 2)
            ELSE { rotativas }
    IN  UNION { { Prefix(e, 3) : e \in Embaralhamentos(a \o r) } :
                  a \in escolhidas_ancora, r \in escolhidas_rotativas }

----------------------------------------------------------------------------
(* ConsultorInteligente.apresentar_resultados *)

TextoInsuficientes == "Não encontrei recomendações suficientes."

\* len(produtos), TypeError for a value without a length
PyLen(v) ==
    CASE v.tipo = "list" -> Retorno(Len(v.valor))
      [] v.tipo = "dict" -> Retorno(Cardinality(DOMAIN v.valor))
      [] v.tipo = "str"  -> Retorno(Len(v.valor))
      [] OTHER           -> Excecao("TypeError")

\* _gerar_html_card(p) raises: p has no method get (AttributeError, line
\* 114), or memoria_ram_gb is an empty list (IndexError, line 143)
CardFalha(p) ==
    \/ p.tipo # "dict"
    \/ /\ "memoria_ram_gb" \in DOMAIN p.valor
       /\ Len(p.valor["memoria_ram_gb"]) = 0

\* the exception _gerar_html_card(p) raises when CardFalha(p)
CardExcecao(p) == IF p.tipo # "dict" THEN "AttributeError" ELSE "IndexError"

\* for p in produtos raises in some card: iterating a list gives its
\* items, iterating a dict gives its keys (strings)
AlgumCardFalha(produtos) ==
    IF produtos.tipo = "list"
    THEN \E k \in 1..Len(produtos.valor) : CardFalha(produtos.valor[k])
    ELSE TRUE

\* the exception of the loop of line 208: that of the first card that
\* raises
PrimeiraExcecao(produtos) ==
    IF produtos.tipo = "list"
    THEN LET falhas == { k \in 1..Len(produtos.valor) :
                           CardFalha(produtos.valor[k]) }
             k1 == CHOOSE k \in falhas : \A j \in falhas : k <= j
         IN  CardExcecao(produtos.valor[k1])
    ELSE "AttributeError"

Documento(produtos, lojas) ==
    [ tipo |-> "documento", produtos |-> produtos, lojas |-> lojas ]

Mensagem(texto) == [ tipo |-> "texto", texto |-> texto ]

\* mutant of apresentar_resultados: line 110 tests only (not produtos)
apresentar_resultados_semMinimo(produtos, ancora, rotativas) ==
    IF ~Truthy(produtos) THEN { Retorno(Mensagem(TextoInsuficientes)) }
    ELSE IF PyLen(produtos).ok = FALSE \/ AlgumCardFalha(produtos)
    THEN { Excecao("Exception") }
    ELSE { Retorno(Documento(produtos.valor, l)) :
             l \in selecionar_lojas(ancora, rotativas) }

\* every outcome of apresentar_resultados(produtos)
apresentar_resultados(produtos, ancora, rotativas) ==
    IF ~Truthy(produtos) THEN { Retorno(Mensagem(TextoInsuficientes)) }
    ELSE IF PyLen(produtos).ok = FALSE THEN { Excecao("TypeError") }
    ELSE IF PyLen(produtos).valor < 3
    THEN { Retorno(Mensagem(TextoInsuficientes)) }
    ELSE IF AlgumCardFalha(produtos)
    THEN { Excecao(PrimeiraExcecao(produtos)) }
    ELSE { Retorno(Documento(produtos.valor, l)) :
             l \in selecionar_lojas(ancora, rotativas) }

----------------------------------------------------------------------------
(* src/api.py: responses *)

SemResposta == [ status |-> 0, corpo |-> [ tipo |-> "nenhuma" ] ]

\* return {"response": recomendacao}
Resposta200(corpo) == [ status |-> 200, corpo |-> corpo ]

\* HTTPException(status_code=503, ...)
Resposta503 ==
    [ status |-> 503,
      corpo |-> [ tipo |-> "detail",
                  texto |-> "Serviço indisponível: Modelo de IA não inicializado." ] ]

\* except Exception as e: HTTPException(status_code=500, ...)
Resposta500(excecao) ==
    [ status |-> 500,
      corpo |-> [ tipo |-> "detail",
                  texto |-> "Ocorreu um erro interno no servidor." ] ]

TextoNaoEntendi == "Desculpe, não consegui entender o que você precisa."
TextoSemCombinacao == "Puxa, não encontrei uma combinação ideal para o seu pedido."
TextoRaiz == "API do Consultor Inteligente v2.1 está no ar!"

----------------------------------------------------------------------------
(* Start of the process: import of api.py, which imports backend_logic    *)

Loja(nome) == [ nome |-> nome, url |-> nome ]

ArquivoOk(dados) == [ estado |-> "ok", dados |-> dados ]
ArquivoAusente == [ estado |-> "ausente", dados |-> << >> ]
ArquivoMalformado == [ estado |-> "malformado", dados |-> << >> ]

CatalogosServico ==
    { Catalogo(perfil, n) : perfil \in Perfis, n \in 0..MaxCatServico }

LojasServico ==
    { EmptyDict,
      [ ancoras |-> << Loja("A1") >>, rotativas |-> << Loja("R1") >> ],
      [ ancoras |-> << Loja("A1") >>,
        rotativas |-> << Loja("R1"), Loja("R2"), Loja("R3") >> ] }

\* backend_logic lines 13-16: import raises RuntimeError without the key
ImportFalha(chave) == ~chave

\* ConsultorInteligente.__init__ raises FileNotFoundError or JSONDecodeError
ConstrutorFalha(celulares, lojas) ==
    celulares.estado # "ok" \/ lojas.estado # "ok"

\* python imports api.py
Iniciar ==
    /\ processo = "iniciando"
    /\ IF ImportFalha(env_key)
       THEN /\ processo' = "abortado"
            /\ UNCHANGED << consultor, database_celulares, lojas_ancora,
                            lojas_rotativas >>
       ELSE /\ processo' = "servindo"
            /\ IF ConstrutorFalha(celulares_json, lojas_json)
               THEN /\ consultor' = PyNone
                    /\ UNCHANGED << database_celulares, lojas_ancora,
                                    lojas_rotativas >>
               ELSE /\ consultor' = "ConsultorInteligente"
                    /\ database_celulares' = celulares_json.dados
                    /\ lojas_ancora' = Get(lojas_json.dados, "ancoras", << >>)
                    /\ lojas_rotativas' =
                           Get(lojas_json.dados, "rotativas", << >>)
    /\ UNCHANGED << env_key, celulares_json, lojas_json, pc, extraido,
                    intencao, candidatos, produtos_recomendados,
                    lojas_selecionadas, resposta, raiz, etapas,
                    chamadas_remotas, chamadas_pontuacao, consultas_log >>

----------------------------------------------------------------------------
(* src/api.py: handlers *)

\* GET /
ReadRoot ==
    /\ processo = "servindo"
    /\ raiz' = TextoRaiz
    /\ UNCHANGED << env_key, celulares_json, lojas_json, processo, consultor,
                    database_celulares, lojas_ancora, lojas_rotativas, pc,
                    extraido, intencao, candidatos, produtos_recomendados,
                    lojas_selecionadas, resposta, etapas, chamadas_remotas,
                    chamadas_pontuacao, consultas_log >>

Nada == [ tipo |-> "nada" ]

\* POST /consultar, lines 53-66: up to the call of
\* gerar_recomendacao_completa.  quebras is the number of line feeds in
\* user_query.query: line 62 writes the query as it came, followed by one
\* line feed.
Consultar ==
    /\ processo = "servindo"
    /\ pc = "ocioso"
    /\ consultas_log < MaxConsultas
    /\ IF consultor = PyNone
       THEN /\ resposta' = Resposta503
            /\ UNCHANGED << pc, extraido, intencao, candidatos,
                            produtos_recomendados, lojas_selecionadas, etapas,
                            chamadas_remotas, chamadas_pontuacao,
                            consultas_log >>
       ELSE /\ \E gravou \in BOOLEAN, quebras \in 0..MaxQuebras :
                   consultas_log' = IF gravou THEN consultas_log + quebras + 1
                                    ELSE consultas_log
            /\ pc' = "captar"
            /\ resposta' = SemResposta
            /\ extraido' = Nada
            /\ intencao' = Nada
            /\ candidatos' = << >>
            /\ produtos_recomendados' = Nada
            /\ lojas_selecionadas' = << >>
            /\ etapas' = << >>
            /\ chamadas_remotas' = << >>
            /\ chamadas_pontuacao' = 0
    /\ UNCHANGED << env_key, celulares_json, lojas_json, processo, consultor,
                    database_celulares, lojas_ancora, lojas_rotativas, raiz >>

----------------------------------------------------------------------------
(* ConsultorInteligente.gerar_recomendacao_completa, step by step *)

\* mutant of IntencaoVazia: line 91 as (intencao is None)
IntencaoVazia_soNone(v) == v.tipo = "None"

\* line 91: not intencao
IntencaoVazia(v) == ~Truthy(v)

\* lines 89-91: captar_intencao and the test of its result
Captar ==
    /\ pc = "captar"
    /\ etapas' = Append(etapas, "captar_intencao")
    /\ chamadas_remotas' = Append(chamadas_remotas, "captar_intencao")
    /\ \E falha \in BOOLEAN :
          IF falha
          THEN \* generate_content or response.text raises
               /\ resposta' = Resposta500("Exception")
               /\ pc' = "ocioso"
               /\ UNCHANGED << extraido, intencao >>
          ELSE \E text \in RespostasIntencao :
               /\ extraido' = extrair_json_da_resposta(text)
               /\ intencao' = Ou(extraido', PyDict(EmptyDict))
               /\ IF IntencaoVazia(intencao')
                  THEN /\ resposta' = Resposta200(Mensagem(TextoNaoEntendi))
                       /\ pc' = "ocioso"
                  ELSE /\ pc' = "filtrar"
                       /\ UNCHANGED resposta
    /\ UNCHANGED << env_key, celulares_json, lojas_json, processo, consultor,
                    database_celulares, lojas_ancora, lojas_rotativas,
                    candidatos, produtos_recomendados, lojas_selecionadas,
                    raiz, chamadas_pontuacao, consultas_log >>

\* line 92: filtrar_celulares_localmente; intencao.get raises AttributeError
\* when the intent is not a dict
Filtrar ==
    /\ pc = "filtrar"
    /\ etapas' = Append(etapas, "filtrar_celulares_localmente")
    /\ IF intencao.tipo # "dict"
       THEN /\ resposta' = Resposta500("AttributeError")
            /\ pc' = "ocioso"
            /\ UNCHANGED << candidatos, chamadas_pontuacao >>
       ELSE /\ \E r \in filtrar_celulares_localmente(database_celulares,
                                                     intencao.valor) :
                   candidatos' = r
            /\ chamadas_pontuacao' =
                   PontuacoesCalculadas(database_celulares, intencao.valor)
            /\ pc' = "classificar"
            /\ UNCHANGED resposta
    /\ UNCHANGED << env_key, celulares_json, lojas_json, processo, consultor,
                    database_celulares, lojas_ancora, lojas_rotativas,
                    extraido, intencao, produtos_recomendados,
                    lojas_selecionadas, raiz, chamadas_remotas,
                    consultas_log >>

\* mutant of ShortlistVazia: line 81 left out
ShortlistVazia_nunca(c) == FALSE

\* line 81: not candidatos
ShortlistVazia(c) == Len(c) = 0

\* lines 94-95: classificar_e_recomendar and the test of its result
Classificar ==
    /\ pc = "classificar"
    /\ etapas' = Append(etapas, "classificar_e_recomendar")
    /\ IF ShortlistVazia(candidatos)
       THEN /\ produtos_recomendados' = PyList(<< >>)
            /\ resposta' = Resposta200(Mensagem(TextoSemCombinacao))
            /\ pc' = "ocioso"
            /\ UNCHANGED << extraido, chamadas_remotas >>
       ELSE /\ chamadas_remotas' =
                   Append(chamadas_remotas, "classificar_e_recomendar")
            /\ \E falha \in BOOLEAN :
                  IF falha
                  THEN /\ resposta' = Resposta500("Exception")
                       /\ pc' = "ocioso"
                       /\ UNCHANGED << extraido, produtos_recomendados >>
                  ELSE \E text \in RespostasRecomendacao :
                       /\ extraido' = extrair_json_da_resposta(text)
                       /\ produtos_recomendados' = Ou(extraido', PyList(<< >>))
                       /\ IF ~Truthy(produtos_recomendados')
                          THEN /\ resposta' =
                                      Resposta200(Mensagem(TextoSemCombinacao))
                               /\ pc' = "ocioso"
                          ELSE /\ pc' = "apresentar"
                               /\ UNCHANGED resposta
    /\ UNCHANGED << env_key, celulares_json, lojas_json, processo, consultor,
                    database_celulares, lojas_ancora, lojas_rotativas,
                    intencao, candidatos, lojas_selecionadas, raiz,
                    chamadas_pontuacao, consultas_log >>

\* lines 96-98: apresentar_resultados, and api.py lines 68-71
Apresentar ==
    /\ pc = "apresentar"
    /\ etapas' = Append(etapas, "apresentar_resultados")
    /\ \E r \in apresentar_resultados(produtos_recomendados, lojas_ancora,
                                      lojas_rotativas) :
          IF r.ok
          THEN /\ resposta' = Resposta200(r.valor)
               /\ lojas_selecionadas' =
                      IF r.valor.tipo = "documento" THEN r.valor.lojas
                      ELSE lojas_selecionadas
          ELSE /\ resposta' = Resposta500(r.excecao)
               /\ UNCHANGED lojas_selecionadas
    /\ pc' = "ocioso"
    /\ UNCHANGED << env_key, celulares_json, lojas_json, processo, consultor,
                    database_celulares, lojas_ancora, lojas_rotativas,
                    extraido, intencao, candidatos, produtos_recomendados,
                    raiz, chamadas_remotas, chamadas_pontuacao,
                    consultas_log >>

----------------------------------------------------------------------------
(* The service: start of the process, then requests one at a time *)

Init ==
    /\ env_key \in BOOLEAN
    /\ celulares_json \in { ArquivoAusente, ArquivoMalformado }
                          \cup { ArquivoOk(c) : c \in CatalogosServico }
    /\ lojas_json \in { ArquivoAusente, ArquivoMalformado }
                      \cup { ArquivoOk(l) : l \in LojasServico }
    /\ processo = "iniciando"
    /\ consultor = PyNone
    /\ database_celulares = << >>
    /\ lojas_ancora = << >>
    /\ lojas_rotativas = << >>
    /\ pc = "ocioso"
    /\ extraido = Nada
    /\ intencao = Nada
    /\ candidatos = << >>
    /\ produtos_recomendados = Nada
    /\ lojas_selecionadas = << >>
    /\ resposta = SemResposta
    /\ raiz = PyNone
    /\ etapas = << >>
    /\ chamadas_remotas = << >>
    /\ chamadas_pontuacao = 0
    /\ consultas_log = 0

Next ==
    \/ Iniciar
    \/ ReadRoot
    \/ Consultar
    \/ Captar
    \/ Filtrar
    \/ Classificar
    \/ Apresentar

Spec == Init /\ [][Next]_vars

----------------------------------------------------------------------------
(* The filter on its own: a request that reached line 92, for every       *)
(* catalog and every intent                                                *)

InitFiltro ==
    /\ env_key = TRUE
    /\ database_celulares \in Catalogos
    /\ celulares_json = ArquivoOk(database_celulares)
    /\ lojas_json = ArquivoOk(EmptyDict)
    /\ processo = "servindo"
    /\ consultor = "ConsultorInteligente"
    /\ lojas_ancora = << >>
    /\ lojas_rotativas = << >>
    /\ pc = "filtrar"
    /\ intencao \in { PyDict(d) : d \in Intencoes }
    /\ extraido = intencao
    /\ candidatos = << >>
    /\ produtos_recomendados = Nada
    /\ lojas_selecionadas = << >>
    /\ resposta = SemResposta
    /\ raiz = PyNone
    /\ etapas = << "captar_intencao" >>
    /\ chamadas_remotas = << "captar_intencao" >>
    /\ chamadas_pontuacao = 0
    /\ consultas_log = 1

NextFiltro == Filtrar

SpecFiltro == InitFiltro /\ [][NextFiltro]_vars

----------------------------------------------------------------------------
(* The retailer selector on its own: a request that reached line 96 with   *)
(* three renderable recommendations, for every pair of retailer lists      *)

NomesRotativas == { "R1", "R2", "R3", "R4" }

AncorasPossiveis ==
    { << >>, << Loja("A1") >>, << Loja("R1") >>, << Loja("A1"), Loja("A2") >> }

RotativasPossiveis ==
    UNION { [ 1..k -> { Loja(n) : n \in NomesRotativas } ] :
              k \in 0..MaxRotativas }

InitLojas ==
    /\ env_key = TRUE
    /\ lojas_ancora \in AncorasPossiveis
    /\ lojas_rotativas \in RotativasPossiveis
    /\ database_celulares = Catalogo("escada", 3)
    /\ celulares_json = ArquivoOk(database_celulares)
    /\ lojas_json = ArquivoOk([ ancoras |-> lojas_ancora,
                                rotativas |-> lojas_rotativas ])
    /\ processo = "servindo"
    /\ consultor = "ConsultorInteligente"
    /\ pc = "apresentar"
    /\ intencao = PyDict([ caracteristicas_foco |-> << >> ])
    /\ candidatos = << 1, 2, 3 >>
    /\ produtos_recomendados = PyList(<< ItemOk, ItemOk, ItemOk >>)
    /\ extraido = produtos_recomendados
    /\ lojas_selecionadas = << >>
    /\ resposta = SemResposta
    /\ raiz = PyNone
    /\ etapas = << "captar_intencao", "filtrar_celulares_localmente",
                   "classificar_e_recomendar" >>
    /\ chamadas_remotas = << "captar_intencao", "classificar_e_recomendar" >>
    /\ chamadas_pontuacao = 0
    /\ consultas_log = 1

NextLojas == Apresentar

SpecLojas == InitLojas /\ [][NextLojas]_vars

----------------------------------------------------------------------------
(* Vocabulary of the statements about the filter.  These definitions say   *)
(* what the specification expects; they do not use the operators that      *)
(* model filtrar_celulares_localmente.                                     *)

\* the filter of the request in flight has returned
FiltroRetornou ==
    /\ Len(etapas) >= 2
    /\ etapas[2] = "filtrar_celulares_localmente"
    /\ intencao.tipo = "dict"

\* the intent carries a price tier
TemFaixa(intent) ==
    /\ "faixa_preco_categoria" \in DOMAIN intent
    /\ intent["faixa_preco_categoria"] \notin { PyNone, "" }

\* the focus list of the intent, empty when the key is absent
FocoDe(intent) ==
    IF "caracteristicas_foco" \in DOMAIN intent
    THEN intent["caracteristicas_foco"] ELSE << >>

\* positions of the catalog entries that are active and in the wanted tier
Elegiveis(db, intent) ==
    { i \in 1..Len(db) :
        /\ "ativo" \in DOMAIN db[i]
        /\ db[i]["ativo"] = TRUE
        /\ TemFaixa(intent) =>
             db[i]["compra"]["faixa_preco_categoria"]
                 = intent["faixa_preco_categoria"] }

\* the rating a focus tag stands for, 0 when the tag is not recognized or
\* the rating is missing
NotaEsperada(celular, foco) ==
    LET av == celular["avaliacoes"]
        nd == av["notas_detalhadas"]
        chave == [ t \in { "câmera", "bateria", "desempenho", "tela", "design" }
                     |-> IF t = "câmera" THEN "camera_principal" ELSE t ]
    IN  IF foco = "custo-benefício"
        THEN (IF "custo_beneficio" \in DOMAIN av THEN av["custo_beneficio"] ELSE 0)
        ELSE IF foco \in DOMAIN chave /\ chave[foco] \in DOMAIN nd
             THEN nd[chave[foco]] ELSE 0

\* the score of an entry: the sum of the ratings of the focus tags, added
\* as floats in the order of the focus list
PontuacaoEsperada(celular, foco) ==
    LET soma[k \in 0..Len(foco)] ==
            IF k = 0 THEN Zero
            ELSE SomaDouble(soma[k - 1], Double(NotaEsperada(celular, foco[k])))
    IN  soma[Len(foco)]

\* the scores of the catalog entries for the focus list of the intent, by
\* position; each score is written as the number of entries that score
\* less, which keeps the order and the ties of the scores
Pontuacoes(db, intent) ==
    LET s == [ i \in 1..Len(db) |-> PontuacaoEsperada(db[i], FocoDe(intent)) ]
                 \o << >>
    IN  [ i \in 1..Len(db) |->
            Cardinality({ j \in 1..Len(db) : ~MaiorOuIgual(s[j], s[i]) }) ]
        \o << >>

\* how many entries of E come before entry c when E is ordered by
\* descending score p, ties in catalog order
Adiante(E, p, c) ==
    Cardinality({ d \in E : p[d] > p[c] \/ (p[d] = p[c] /\ d < c) })

\* the first 7 entries of E in that order
Top7Esperado(E, p) == { c \in E : Adiante(E, p, c) < 7 }

Min(a, b) == IF a < b THEN a ELSE b

----------------------------------------------------------------------------
(* C1 *)

\* C1: every element the filter returns, on the fallback path and on the
\* scored path, is a catalog entry whose ativo flag is true and, when the
\* intent carries a price tier, whose compra.faixa_preco_categoria is that
\* tier.
C1_RetornadosAtivosNaFaixa ==
    FiltroRetornou =>
        \A k \in 1..Len(candidatos) :
            /\ candidatos[k] \in 1..Len(database_celulares)
            /\ "ativo" \in DOMAIN database_celulares[candidatos[k]]
            /\ database_celulares[candidatos[k]]["ativo"] = TRUE
            /\ TemFaixa(intencao.valor) =>
                 database_celulares[candidatos[k]]["compra"]["faixa_preco_categoria"]
                     = intencao.valor["faixa_preco_categoria"]

\* a scored call that returned entries from a catalog holding an inactive
\* entry, an entry without the flag and an entry of another tier
C1_Witness ==
    /\ FiltroRetornou
    /\ chamadas_pontuacao > 0
    /\ TemFaixa(intencao.valor)
    /\ candidatos # << >>
    /\ \E i, j, k \in 1..Len(database_celulares) :
           /\ "ativo" \notin DOMAIN database_celulares[i]
           /\ "ativo" \in DOMAIN database_celulares[j]
           /\ database_celulares[j]["ativo"] = FALSE
           /\ database_celulares[k]["compra"]["faixa_preco_categoria"]
                  # intencao.valor["faixa_preco_categoria"]

\* the same on the fallback path
C1_WitnessFallback ==
    /\ FiltroRetornou
    /\ chamadas_pontuacao = 0
    /\ TemFaixa(intencao.valor)
    /\ candidatos # << >>
    /\ Cardinality(Elegiveis(database_celulares, intencao.valor))
           < Len(database_celulares)

----------------------------------------------------------------------------
(* C2 *)

\* C2: when the focus list of the intent is empty or absent, the filter
\* returns the first 10 (all, if fewer) active entries of the wanted tier,
\* in catalog order, and calcular_pontuacao is not invoked.
C2_FallbackPrimeirosDez ==
    (FiltroRetornou /\ FocoDe(intencao.valor) = << >>) =>
        LET E == Elegiveis(database_celulares, intencao.valor)
        IN  /\ Len(candidatos) = Min(Cardinality(E), 10)
            /\ \A k \in 1..Len(candidatos) : candidatos[k] \in E
            /\ \A k \in 1..(Len(candidatos) - 1) :
                   candidatos[k] < candidatos[k + 1]
            /\ \A e \in E : \A k \in 1..Len(candidatos) :
                   e < candidatos[k] => e \in Range(candidatos)
            /\ chamadas_pontuacao = 0

\* more than 10 active Entrada entries, intent {Entrada, []}: 10 returned
C2_Witness ==
    /\ FiltroRetornou
    /\ intencao.valor = [ faixa_preco_categoria |-> "Entrada",
                    caracteristicas_foco |-> << >> ]
    /\ Cardinality(Elegiveis(database_celulares, intencao.valor)) > 10
    /\ Len(candidatos) = 10
    /\ candidatos = [ k \in 1..10 |-> k ]

----------------------------------------------------------------------------
(* C3 *)

\* C3 as stated: with a non-empty focus list the output has at most 5
\* entries and every returned entry scores at least as much as every
\* eligible entry of the initial top 7 that was not returned.
C3_ComoEnunciado ==
    (FiltroRetornou /\ FocoDe(intencao.valor) # << >>) =>
        LET p == Pontuacoes(database_celulares, intencao.valor)
            E == Elegiveis(database_celulares, intencao.valor)
        IN  /\ Len(candidatos) <= 5
            /\ \A d \in E \ Range(candidatos) :
                   Adiante(E, p, d) < 7 =>
                       \A k \in 1..Len(candidatos) : p[candidatos[k]] >= p[d]

\* C3 amended: with a non-empty focus list the output has at most 5
\* entries and every returned entry scores at least as much as every
\* eligible entry that is outside the initial top 7; an entry of the top 7
\* that the random sample left out may score more than a returned one.
C3_Emendado ==
    (FiltroRetornou /\ FocoDe(intencao.valor) # << >>) =>
        LET p == Pontuacoes(database_celulares, intencao.valor)
            E == Elegiveis(database_celulares, intencao.valor)
        IN  /\ Len(candidatos) <= 5
            /\ \A d \in E \ Range(candidatos) :
                   Adiante(E, p, d) >= 7 =>
                       \A k \in 1..Len(candidatos) : p[candidatos[k]] >= p[d]

\* a sampled output, with an eligible entry outside the top 7 that scores
\* less than a returned one and a left-out top-7 entry that scores more
C3_Witness ==
    /\ FiltroRetornou
    /\ FocoDe(intencao.valor) # << >>
    /\ Len(candidatos) = 5
    /\ LET p == Pontuacoes(database_celulares, intencao.valor)
           E == Elegiveis(database_celulares, intencao.valor)
           T == Top7Esperado(E, p)
       IN  /\ \E d \in E \ T : \E k \in 1..5 : p[d] < p[candidatos[k]]
           /\ \E d \in T \ Range(candidatos) : \E k \in 1..5 :
                  p[d] > p[candidatos[k]]

----------------------------------------------------------------------------
(* C4 *)

\* the case of C4: no price tier, focus ["bateria"], at least 7 active
\* entries, entry a active with a battery rating above that of every other entry
CasoC4(a) ==
    /\ FiltroRetornou
    /\ ~TemFaixa(intencao.valor)
    /\ FocoDe(intencao.valor) = << "bateria" >>
    /\ Cardinality(Elegiveis(database_celulares, intencao.valor)) >= 7
    /\ a \in Elegiveis(database_celulares, intencao.valor)
    /\ \A i \in 1..Len(database_celulares) :
           i # a => NotaEsperada(database_celulares[i], "bateria")
                        < NotaEsperada(database_celulares[a], "bateria")

\* C4 as stated: in that case A is in the shortlist on every execution.
C4_ComoEnunciado ==
    \A a \in 1..Len(database_celulares) :
        CasoC4(a) => a \in Range(candidatos)

\* C4 amended: in that case the shortlist is 5 different entries out of
\* the 7 best-scored ones, A being the first of the 7; A is in the
\* shortlist for some outcomes of the sampling step and is left out for
\* the others, the shortlist then being 5 of the 6 other entries of the
\* top 7.
C4_Emendado ==
    \A a \in 1..Len(database_celulares) :
        CasoC4(a) =>
            LET p == Pontuacoes(database_celulares, intencao.valor)
                E == Elegiveis(database_celulares, intencao.valor)
            IN  /\ Adiante(E, p, a) = 0
                /\ Len(candidatos) = 5
                /\ Cardinality(Range(candidatos)) = 5
                /\ \A k \in 1..5 :
                       /\ candidatos[k] \in E
                       /\ Adiante(E, p, candidatos[k]) < 7

\* an execution of the case that returned A
C4_Witness ==
    \E a \in 1..Len(database_celulares) :
        /\ CasoC4(a)
        /\ a \in Range(candidatos)
        /\ NotaEsperada(database_celulares[a], "bateria") = 95

----------------------------------------------------------------------------
(* C10 *)

\* C10: with a non-empty focus list and n >= 1 eligible entries the filter
\* returns min(n, 5) pairwise different entries, each among the first 7
\* eligible entries by descending score (ties in catalog order), the score
\* being the sum of the ratings the focus tags stand for, added as Python
\* adds floats; no returned entry scores less than an eligible entry outside
\* those 7.
C10_AmostraDoTop7 ==
    LET E == Elegiveis(database_celulares, intencao.valor)
        p == Pontuacoes(database_celulares, intencao.valor)
    IN  (FiltroRetornou /\ FocoDe(intencao.valor) # << >> /\ E # {}) =>
            /\ Len(candidatos) = Min(Cardinality(E), 5)
            /\ \A j, k \in 1..Len(candidatos) :
                   j # k => candidatos[j] # candidatos[k]
            /\ \A k \in 1..Len(candidatos) :
                   /\ candidatos[k] \in E
                   /\ Adiante(E, p, candidatos[k]) < 7
            /\ \A d \in E \ Range(candidatos) :
                   Adiante(E, p, d) >= 7 =>
                       \A k \in 1..Len(candidatos) : p[candidatos[k]] >= p[d]

\* a sample of 5 out of more than 7 eligible entries, scored on
\* custo-benefício, where the rating of the same name inside
\* notas_detalhadas would have ranked the entries differently
C10_Witness ==
    LET E == Elegiveis(database_celulares, intencao.valor)
    IN  /\ FiltroRetornou
        /\ FocoDe(intencao.valor) = << "custo-benefício", "câmera" >>
        /\ Cardinality(E) > 7
        /\ Len(candidatos) = 5
        /\ \E i \in E :
               "custo_beneficio" \in
                   DOMAIN database_celulares[i]["avaliacoes"]["notas_detalhadas"]

----------------------------------------------------------------------------
(* Vocabulary of the statements about the requests *)

\* POST /consultar was answered
Respondida == resposta.status # 0

EhDocumento(r) == r.status = 200 /\ r.corpo.tipo = "documento"

EhTexto(r, texto) ==
    r.status = 200 /\ r.corpo.tipo = "texto" /\ r.corpo.texto = texto

EhNaoEntendi(r) ==
    EhTexto(r, "Desculpe, não consegui entender o que você precisa.")

EhSemCombinacao(r) ==
    EhTexto(r, "Puxa, não encontrei uma combinação ideal para o seu pedido.")

EhInsuficientes(r) == EhTexto(r, "Não encontrei recomendações suficientes.")

EhIndisponivel(r) ==
    /\ r.status = 503
    /\ r.corpo.tipo = "detail"
    /\ r.corpo.texto = "Serviço indisponível: Modelo de IA não inicializado."

EhErroInterno(r) ==
    /\ r.status = 500
    /\ r.corpo.tipo = "detail"
    /\ r.corpo.texto = "Ocorreu um erro interno no servidor."

\* how many items a recommendation value has
Tamanho(v) ==
    IF v.tipo = "list" THEN Len(v.valor)
    ELSE IF v.tipo = "dict" THEN Cardinality(DOMAIN v.valor)
    ELSE 0

----------------------------------------------------------------------------
(* C5 *)

\* C5 as stated: the answer to POST /consultar is always one of five: the
\* success document, the "could not understand" apology, the "no match
\* found" apology, a 503 response or a generic 500 response.
C5_ComoEnunciado ==
    Respondida =>
        \/ EhDocumento(resposta)
        \/ EhNaoEntendi(resposta)
        \/ EhSemCombinacao(resposta)
        \/ EhIndisponivel(resposta)
        \/ EhErroInterno(resposta)

\* C5 amended: the answer to a POST /consultar that reaches the handler (a
\* body the framework accepts as {query: string}) is always one of six: the
\* five above and the text "Não encontrei recomendações suficientes.", sent with
\* status 200 exactly when the synthesizer's reply is a non-empty value of
\* fewer than 3 items; the success document always has at least 3 items.
C5_Emendado ==
    Respondida =>
        /\ \/ EhDocumento(resposta)
           \/ EhNaoEntendi(resposta)
           \/ EhSemCombinacao(resposta)
           \/ EhInsuficientes(resposta)
           \/ EhIndisponivel(resposta)
           \/ EhErroInterno(resposta)
        /\ EhInsuficientes(resposta) =>
               /\ Tamanho(produtos_recomendados) \in { 1, 2 }
               /\ etapas[Len(etapas)] = "apresentar_resultados"
        /\ EhDocumento(resposta) =>
               /\ produtos_recomendados.tipo = "list"
               /\ resposta.corpo.produtos = produtos_recomendados.valor
               /\ Len(resposta.corpo.produtos) >= 3
        /\ (/\ Len(etapas) = 4
            /\ pc = "ocioso"
            /\ Tamanho(produtos_recomendados) \in { 1, 2 })
               => EhInsuficientes(resposta)

\* the synthesizer replied with a list of 2 items and the caller got the
\* sixth text
C5_Witness ==
    /\ produtos_recomendados.tipo = "list"
    /\ Len(produtos_recomendados.valor) = 2
    /\ EhInsuficientes(resposta)

----------------------------------------------------------------------------
(* C6 *)

ArquivoComErro ==
    celulares_json.estado # "ok" \/ lojas_json.estado # "ok"

\* C6 as stated: with a configuration error (no GEMINI_API_KEY, or
\* celulares.json or lojas.json missing or malformed) the process does not
\* start and neither GET / nor POST /consultar is ever answered.
C6_ComoEnunciado ==
    (~env_key \/ ArquivoComErro) =>
        /\ processo # "servindo"
        /\ raiz = PyNone
        /\ ~Respondida

\* the execution that breaks it: lojas.json is missing, the key and
\* celulares.json are there; ConsultorInteligente() raises, line 44 of
\* api.py catches the exception, the process serves, GET / was answered
\* and POST /consultar was answered 503
C6_ProcessoServeComErro ==
    /\ env_key
    /\ celulares_json.estado = "ok"
    /\ lojas_json.estado = "ausente"
    /\ processo = "servindo"
    /\ consultor = PyNone
    /\ raiz # PyNone
    /\ EhIndisponivel(resposta)

----------------------------------------------------------------------------
(* C7 *)

\* C7: when the reply to the intent prompt cannot be parsed, or parses to an
\* empty record, captar_intencao returns an empty intent and the request
\* stops: the filter and the synthesizer are not run, one remote call was
\* issued, and the answer is the "could not understand" apology with status
\* 200.  A request that goes on to the filter has a non-empty intent.
C7_ParaSemIntencao ==
    /\ (/\ Len(etapas) = 1
        /\ \/ extraido.tipo = "None"
           \/ extraido.tipo = "dict" /\ DOMAIN extraido.valor = {})
           => /\ intencao.tipo = "dict"
              /\ DOMAIN intencao.valor = {}
              /\ pc = "ocioso"
              /\ EhNaoEntendi(resposta)
              /\ chamadas_remotas = << "captar_intencao" >>
              /\ candidatos = << >>
              /\ chamadas_pontuacao = 0
              /\ produtos_recomendados.tipo = "nada"
    /\ Len(etapas) >= 2 =>
           ~(intencao.tipo = "dict" /\ DOMAIN intencao.valor = {})

\* a reply that could not be parsed, answered with the apology
C7_Witness ==
    /\ Len(etapas) = 1
    /\ extraido.tipo = "None"
    /\ pc = "ocioso"
    /\ consultas_log > 0
    /\ EhNaoEntendi(resposta)

----------------------------------------------------------------------------
(* C8 *)

\* C8: when the shortlist handed to classificar_e_recomendar is empty it
\* returns an empty list, no remote call is issued for it and the request
\* ends with the "no match found" apology; the synthesis call is issued
\* only after the filter produced a non-empty shortlist.
C8_SemChamadaSemShortlist ==
    /\ (/\ Len(etapas) >= 3
        /\ etapas[3] = "classificar_e_recomendar"
        /\ Len(candidatos) = 0)
           => /\ produtos_recomendados.tipo = "list"
              /\ Len(produtos_recomendados.valor) = 0
              /\ chamadas_remotas = << "captar_intencao" >>
              /\ pc = "ocioso"
              /\ Len(etapas) = 3
              /\ EhSemCombinacao(resposta)
    /\ (\E k \in 1..Len(chamadas_remotas) :
            chamadas_remotas[k] = "classificar_e_recomendar")
           => /\ Len(candidatos) > 0
              /\ Len(etapas) >= 3
              /\ etapas[2] = "filtrar_celulares_localmente"

\* a non-empty intent whose tier no active entry of a non-empty catalog
\* has: the shortlist is empty and the request ended with the apology
C8_Witness ==
    /\ Len(etapas) = 3
    /\ etapas[3] = "classificar_e_recomendar"
    /\ Len(database_celulares) > 0
    /\ Len(candidatos) = 0
    /\ EhSemCombinacao(resposta)

----------------------------------------------------------------------------
(* C9 *)

\* how many times x occurs in the list s
Ocorrencias(s, x) == Cardinality({ i \in 1..Len(s) : s[i] = x })

\* s and t hold the same entries the same number of times
MesmasEntradas(s, t) ==
    /\ Len(s) = Len(t)
    /\ \A i \in 1..Len(s) : Ocorrencias(s, s[i]) = Ocorrencias(t, s[i])

\* selecionar_lojas returned, for the success document
LojasEscolhidas == pc = "ocioso" /\ EhDocumento(resposta)

\* 1 anchor retailer and 4 rotating retailers, the 5 of them different
UmaAncoraQuatroRotativas ==
    /\ Len(lojas_ancora) = 1
    /\ Len(lojas_rotativas) = 4
    /\ Cardinality(Range(lojas_rotativas) \cup Range(lojas_ancora)) = 5

\* C9: selecionar_lojas returns at most 3 entries: one entry of the anchor
\* list when it is not empty, and entries from two different positions of
\* the rotating list (the whole list when it has fewer than two), in any
\* order; with 1 anchor and 4 distinct rotating retailers it returns
\* exactly 3 entries, the anchor among them, and no entry twice.
C9_LojasSelecionadas ==
    LojasEscolhidas =>
        /\ Len(lojas_selecionadas) <= 3
        /\ \E a \in (IF Len(lojas_ancora) > 0
                     THEN { << lojas_ancora[i] >> : i \in 1..Len(lojas_ancora) }
                     ELSE { << >> }) :
           \E r \in (IF Len(lojas_rotativas) >= 2
                     THEN { << lojas_rotativas[q[1]], lojas_rotativas[q[2]] >> :
                              q \in { x \in (1..Len(lojas_rotativas))
                                              \X (1..Len(lojas_rotativas)) :
                                        x[1] # x[2] } }
                     ELSE { lojas_rotativas }) :
               MesmasEntradas(lojas_selecionadas, a \o r)
        /\ UmaAncoraQuatroRotativas =>
               /\ Len(lojas_selecionadas) = 3
               /\ Ocorrencias(lojas_selecionadas, lojas_ancora[1]) = 1
               /\ \A i, j \in 1..3 :
                      i # j => lojas_selecionadas[i] # lojas_selecionadas[j]

\* a selection out of 1 anchor and 4 distinct rotating retailers
C9_Witness ==
    /\ LojasEscolhidas
    /\ UmaAncoraQuatroRotativas
    /\ Len(lojas_selecionadas) = 3

====
